---- MODULE Spec2Model ----
(***************************************************************************)
(* Model of data_collection/data_collector.py: the DataCollector class     *)
(* (collect_data, _construct_url, _process_data) and the static method     *)
(* compute_team_statistics.                                                *)
(*                                                                         *)
(* A cell of a table is <<>> (missing, pandas NaN/None/NaT) or <<v>>.      *)
(* A DataFrame is [cols |-> sequence of column names,                      *)
(*                 rows |-> sequence of functions from the columns to      *)
(*                          cells].                                        *)
(***************************************************************************)
EXTENDS Integers, Sequences, FiniteSets, TLC

VARIABLES league, all_data, pc, year_start, year, year_end, write_csv,
          requests, history, files, remote, entropy, df, stats

\* league, all_data   the instance attributes set by __init__
\* pc                 "idle" outside collect_data, "loop" inside its loop
\* year_start, year_end, write_csv   the arguments of the running call
\* year               the loop variable
\* requests           the URLs the running call has requested so far
\* history            per finished call: arguments, requests, and the table
\*                    returned or the exception raised
\* files              the files written by to_csv
\* remote             what the archive answers to each URL
\* entropy            the state of the random source behind uuid4
\* df, stats          argument and result of compute_team_statistics
vars == <<league, all_data, pc, year_start, year, year_end, write_csv,
          requests, history, files, remote, entropy, df, stats>>

----------------------------------------------------------------------------
(* Bounds *)

NumYears == 2
MaxCalls == 2
MaxProcRows == 2
MaxStatRows == 2

Years == 2020..(2020 + NumYears - 1)

----------------------------------------------------------------------------
(* Generic helpers *)

NA == <<>>
Some(v) == <<v>>
IsNA(c) == c = NA

Range(s) == {s[i] : i \in DOMAIN s}

Min(a, b) == IF a <= b THEN a ELSE b

RECURSIVE Flatten(_)
Flatten(ss) == IF ss = <<>> THEN <<>> ELSE Head(ss) \o Flatten(Tail(ss))

IndexOf(s, c) == CHOOSE i \in DOMAIN s : s[i] = c

----------------------------------------------------------------------------
(* The static reference mapping assets.cities: home team -> name/lat/lon *)

cities == [t \in {"Arsenal", "Chelsea"} |->
             [name |-> "London", lat |-> 51, lon |-> 0]]

----------------------------------------------------------------------------
(* _construct_url *)

Last2(n) == n % 100

\* _construct_url without the final else branch: any other league gets the
\* E0 URL.
ConstructUrlNoCheck(lg, y) ==
    [ok |-> TRUE, yy |-> Last2(y), yy1 |-> Last2(y + 1),
     code |-> IF lg = "serie_a" THEN "I1" ELSE "E0"]

ConstructUrl(lg, y) ==
    IF lg = "serie_a"
    THEN [ok |-> TRUE, yy |-> Last2(y), yy1 |-> Last2(y + 1), code |-> "I1"]
    ELSE IF lg = "epl"
    THEN [ok |-> TRUE, yy |-> Last2(y), yy1 |-> Last2(y + 1), code |-> "E0"]
    ELSE [ok |-> FALSE, yy |-> 0, yy1 |-> 0, code |-> ""]

----------------------------------------------------------------------------
(* The remote archive: CSV text per URL.  A body is a header row and data *)
(* lines; a line is a sequence of fields (cells).                          *)

DateText(d, m, y) == Some([kind |-> "text", f1 |-> d, f2 |-> m, f3 |-> y])

BaseHeader == <<"Div", "Date", "HomeTeam", "AwayTeam", "FTHG", "FTAG", "FTR">>

EmptyBody == [header |-> <<>>, lines |-> <<>>]

\* Season yy/yy+1: one match in August of the first year, one line with too
\* many fields, one match in May of the second year.  Even seasons carry the
\* extra column HTR, and their last line is short.
SeasonBody(u) ==
    LET y == 2000 + u.yy
        div == Some(u.code)
    IN  IF u.yy % 2 = 0
        THEN [header |-> BaseHeader \o <<"HTR">>,
              lines |-> << <<div, DateText(15, 8, y), Some("Arsenal"),
                             Some("Chelsea"), Some(2), Some(1), Some("H"),
                             Some("D")>>,
                           <<div, DateText(16, 8, y), Some("Chelsea"),
                             Some("Arsenal"), Some(0), Some(0), Some("D"),
                             Some("D"), Some("x")>>,
                           <<div, DateText(20, 5, y + 1), Some("Unmapped FC"),
                             Some("Arsenal"), Some(0), Some(3), Some("A")>> >>]
        ELSE [header |-> BaseHeader,
              lines |-> << <<div, DateText(14, 8, y), Some("Chelsea"),
                             Some("Unmapped FC"), Some(1), Some(1),
                             Some("D")>>,
                           <<div, DateText(21, 5, y + 1), Some("Arsenal"),
                             Some("Chelsea"), Some(0), Some(2), Some("A"),
                             Some("x"), Some("y")>>,
                           <<div, DateText(22, 5, y + 1), Some("Arsenal"),
                             Some("Unmapped FC"), Some(3), Some(0),
                             Some("H")>> >>]

\* What a GET of url u can produce: a transport-level exception, a
\* non-success status, or status 200 with the season's CSV text.
ResponsesFor(u) ==
    { [raises |-> TRUE,  status_code |-> 0,   text |-> EmptyBody],
      [raises |-> FALSE, status_code |-> 404, text |-> EmptyBody],
      [raises |-> FALSE, status_code |-> 200, text |-> SeasonBody(u)] }

\* The URLs a collector of league lg can ask for.
UrlsOf(lg) == {u \in {ConstructUrl(lg, y) : y \in Years} : u.ok}

RequestsGet(u) == remote[u]

\* r.status_code == 200, no RequestException raised
IsOk200(r) == ~r.raises /\ r.status_code = 200

----------------------------------------------------------------------------
(* pd.read_csv(data, on_bad_lines="skip") *)

\* A line with more fields than the header is a bad line and is skipped; a
\* line with fewer fields is padded with missing values.
ReadCsv(body) ==
    LET good == SelectSeq(body.lines,
                          LAMBDA ln : Len(ln) <= Len(body.header))
        MkRow(ln) == [c \in Range(body.header) |->
                        IF IndexOf(body.header, c) <= Len(ln)
                        THEN ln[IndexOf(body.header, c)] ELSE NA]
    IN  [cols |-> body.header,
         rows |-> [i \in 1..Len(good) |-> MkRow(good[i])]]

----------------------------------------------------------------------------
(* _process_data *)

ErrorResult(s) == [status |-> s, cols |-> <<>>, rows |-> <<>>]

NoObjects == "ValueError: No objects to concatenate"
InvalidLeague == "ValueError: Invalid league"

RECURSIVE UnionCols(_)
\* Column order of pd.concat: first appearance over the tables in order.
UnionCols(data) ==
    IF data = <<>> THEN <<>>
    ELSE LET init == UnionCols(SubSeq(data, 1, Len(data) - 1))
             last == data[Len(data)].cols
         IN  init \o SelectSeq(last, LAMBDA c : c \notin Range(init))

\* pd.concat(self.all_data, ignore_index=True): rows keep their order within
\* and across tables; a column a table lacks is missing in its rows.
Concat(data) ==
    LET cols == UnionCols(data)
        Widen(t) == [i \in 1..Len(t.rows) |->
                       [c \in Range(cols) |->
                          IF c \in Range(t.cols) THEN t.rows[i][c] ELSE NA]]
    IN  [cols |-> cols,
         rows |-> Flatten([k \in 1..Len(data) |-> Widen(data[k])])]

\* DataFrame.assign of one column: an existing column is overwritten in
\* place, a new one is appended.
Assign(t, c, vals) ==
    [cols |-> IF c \in Range(t.cols) THEN t.cols ELSE Append(t.cols, c),
     rows |-> [i \in 1..Len(t.rows) |->
                 [k \in Range(t.cols) \cup {c} |->
                    IF k = c THEN vals[i] ELSE t.rows[i][k]]]]

\* pd.to_datetime(..., dayfirst=True): first field is the day, second the
\* month; a missing value stays missing (NaT); a datetime is left as it is.
ToDatetime(c) ==
    IF IsNA(c) THEN NA
    ELSE IF c[1].kind = "datetime" THEN c
    ELSE Some([kind |-> "datetime", year |-> c[1].f3, month |-> c[1].f2,
               day |-> c[1].f1])

\* The season label f"{a}/{b}" is <<a, b>>; <<>> is the label "nan/nan" that
\* a NaT date produces.
\* The season rule with the boundary at month > 8.
SeasonLabelOffByOne(c) ==
    LET d == ToDatetime(c)
    IN  IF IsNA(d) THEN Some(<<>>)
        ELSE IF d[1].month > 8
        THEN Some(<<d[1].year, d[1].year + 1>>)
        ELSE Some(<<d[1].year - 1, d[1].year>>)

SeasonLabel(c) ==
    LET d == ToDatetime(c)
    IN  IF IsNA(d) THEN Some(<<>>)
        ELSE IF d[1].month >= 8
        THEN Some(<<d[1].year, d[1].year + 1>>)
        ELSE Some(<<d[1].year - 1, d[1].year>>)

\* uuid.uuid4().hex[:8] for the i-th identifier drawn: a random identifier,
\* here a small space standing for the 16^8 values, determined by the state
\* of the random source, which each draw advances.
IdSeeds == {0, 1}
Uuid4Hex8(seed, i) == (seed + i) % 4

\* Series addition: missing if either side is missing.
AddCells(a, b) == IF IsNA(a) \/ IsNA(b) THEN NA ELSE Some(a[1] + b[1])

CityField(c, f) ==
    IF IsNA(c) \/ c[1] \notin DOMAIN cities THEN NA
    ELSE Some(IF f = "name" THEN cities[c[1]].name
              ELSE IF f = "lat" THEN cities[c[1]].lat ELSE cities[c[1]].lon)

\* .dropna(how="all", axis=1): a column is kept iff some row has a value.
DropNaAllCols(t) ==
    LET keep == SelectSeq(t.cols,
                   LAMBDA c : \E i \in DOMAIN t.rows : ~IsNA(t.rows[i][c]))
    IN  [cols |-> keep,
         rows |-> [i \in 1..Len(t.rows) |->
                     [c \in Range(keep) |-> t.rows[i][c]]]]

\* The column order with TG moved to the end.
ColsOrderTgLast(columns) ==
    LET others == SelectSeq(columns, LAMBDA c : c \notin {"game_id", "TG"})
    IN  <<"game_id">> \o others \o <<"TG">>

\* cols = ["game_id"] + others[:3] + ["TG"] + others[3:]
ColsOrder(columns) ==
    LET others == SelectSeq(columns, LAMBDA c : c \notin {"game_id", "TG"})
    IN  <<"game_id">> \o SubSeq(others, 1, Min(3, Len(others)))
          \o <<"TG">> \o SubSeq(others, 4, Len(others))

\* The table after assign(...).dropna(how="all", axis=1), before reordering.
Derived(lg, t, seed) ==
    LET n  == Len(t.rows)
        t1 == Assign(t, "Div", [i \in 1..n |-> Some(lg)])
        t2 == Assign(t1, "Date", [i \in 1..n |-> ToDatetime(t1.rows[i]["Date"])])
        t3 == Assign(t2, "season", [i \in 1..n |-> SeasonLabel(t2.rows[i]["Date"])])
        t4 == Assign(t3, "game_id", [i \in 1..n |-> Some(Uuid4Hex8(seed, i))])
        t5 == Assign(t4, "TG", [i \in 1..n |->
                                  AddCells(t.rows[i]["FTHG"], t.rows[i]["FTAG"])])
        t6 == Assign(t5, "city_name", [i \in 1..n |->
                                  CityField(t.rows[i]["HomeTeam"], "name")])
        t7 == Assign(t6, "lat", [i \in 1..n |->
                                  CityField(t.rows[i]["HomeTeam"], "lat")])
        t8 == Assign(t7, "lon", [i \in 1..n |->
                                  CityField(t.rows[i]["HomeTeam"], "lon")])
    IN  DropNaAllCols(t8)

\* The value _process_data returns, or the exception it raises.
ProcessData(lg, data, seed) ==
    IF data = <<>> THEN ErrorResult(NoObjects)
    ELSE LET t == Concat(data)
         IN  IF ~({"Date", "FTHG", "FTAG", "HomeTeam"} \subseteq Range(t.cols))
             THEN ErrorResult("KeyError")
             ELSE LET d    == Derived(lg, t, seed)
                      cols == ColsOrder(d.cols)
                  IN  IF ~(Range(cols) \subseteq Range(d.cols))
                      THEN ErrorResult("KeyError")
                      ELSE [status |-> "ok", cols |-> cols, rows |-> d.rows]

----------------------------------------------------------------------------
(* compute_team_statistics *)

\* Team names in ascending order, the order groupby and merge sort keys in.
TeamOrder == <<"Arsenal", "Chelsea", "Unmapped FC">>

\* The group keys of df.groupby(col): the non-missing values of the column.
GroupKeys(d, col) ==
    {d.rows[i][col][1] : i \in {k \in DOMAIN d.rows : ~IsNA(d.rows[k][col])}}

Bit(b) == IF b THEN 1 ELSE 0

\* 'sum' skips missing values.
ValueOr0(c) == IF IsNA(c) THEN 0 ELSE c[1]

RECURSIVE AggHome(_, _)
\* agg(HomeGames=count, HomeWins=(FTR == 'H').sum(), HomeDraws=(FTR ==
\* 'D').sum(), HomeGoals=FTHG.sum()) over the rows whose HomeTeam is t.
AggHome(rows, t) ==
    IF rows = <<>>
    THEN [HomeGames |-> 0, HomeWins |-> 0, HomeDraws |-> 0, HomeGoals |-> 0]
    ELSE LET r    == Head(rows)
             rest == AggHome(Tail(rows), t)
         IN  IF r["HomeTeam"] = Some(t)
             THEN [HomeGames |-> rest.HomeGames + 1,
                   HomeWins  |-> rest.HomeWins + Bit(r["FTR"] = Some("H")),
                   HomeDraws |-> rest.HomeDraws + Bit(r["FTR"] = Some("D")),
                   HomeGoals |-> rest.HomeGoals + ValueOr0(r["FTHG"])]
             ELSE rest

RECURSIVE AggAway(_, _)
AggAway(rows, t) ==
    IF rows = <<>>
    THEN [AwayGames |-> 0, AwayWins |-> 0, AwayDraws |-> 0, AwayGoals |-> 0]
    ELSE LET r    == Head(rows)
             rest == AggAway(Tail(rows), t)
         IN  IF r["AwayTeam"] = Some(t)
             THEN [AwayGames |-> rest.AwayGames + 1,
                   AwayWins  |-> rest.AwayWins + Bit(r["FTR"] = Some("A")),
                   AwayDraws |-> rest.AwayDraws + Bit(r["FTR"] = Some("D")),
                   AwayGoals |-> rest.AwayGoals + ValueOr0(r["FTAG"])]
             ELSE rest

HomeStats(d) == [t \in GroupKeys(d, "HomeTeam") |-> AggHome(d.rows, t)]
AwayStats(d) == [t \in GroupKeys(d, "AwayTeam") |-> AggAway(d.rows, t)]

\* One row of a merge on the index: the cells of a side the key is absent
\* from are missing.
MergedRow(h, a, t) ==
    [HomeGames |-> IF t \in DOMAIN h THEN Some(h[t].HomeGames) ELSE NA,
     HomeWins  |-> IF t \in DOMAIN h THEN Some(h[t].HomeWins) ELSE NA,
     HomeDraws |-> IF t \in DOMAIN h THEN Some(h[t].HomeDraws) ELSE NA,
     HomeGoals |-> IF t \in DOMAIN h THEN Some(h[t].HomeGoals) ELSE NA,
     AwayGames |-> IF t \in DOMAIN a THEN Some(a[t].AwayGames) ELSE NA,
     AwayWins  |-> IF t \in DOMAIN a THEN Some(a[t].AwayWins) ELSE NA,
     AwayDraws |-> IF t \in DOMAIN a THEN Some(a[t].AwayDraws) ELSE NA,
     AwayGoals |-> IF t \in DOMAIN a THEN Some(a[t].AwayGoals) ELSE NA]

\* The merge with how='inner'.
MergeInner(h, a) ==
    [t \in (DOMAIN h) \cap (DOMAIN a) |-> MergedRow(h, a, t)]

\* home_stats.merge(away_stats, left_index=True, right_index=True,
\* how='outer')
MergeOuter(h, a) ==
    [t \in (DOMAIN h) \cup (DOMAIN a) |-> MergedRow(h, a, t)]

\* .fillna(0)
FillNa0(m) == [t \in DOMAIN m |-> [f \in DOMAIN m[t] |-> ValueOr0(m[t][f])]]

TotalGames(s) == s.HomeGames + s.AwayGames
TotalWins(s)  == s.HomeWins + s.AwayWins
TotalDraws(s) == s.HomeDraws + s.AwayDraws

\* TotalGoals with AwayGames taken for AwayGoals.
TotalGoalsWrongColumn(s) == s.HomeGoals + s.AwayGames

TotalGoals(s) == s.HomeGoals + s.AwayGoals

\* Series division: 0/0 is NaN and x/0 is infinite, neither raises.
Divide(n, d) ==
    [kind |-> IF d # 0 THEN "finite" ELSE IF n = 0 THEN "nan" ELSE "inf",
     num |-> n, den |-> d]

WinRatio(s)       == Divide(s.TotalWins, s.TotalGames)
DrawRatio(s)      == Divide(s.TotalDraws, s.TotalGames)

\* HomeWinRatio divided by the away games.
HomeWinRatioSwapped(s) == Divide(s.HomeWins, s.AwayGames)

HomeWinRatio(s)   == Divide(s.HomeWins, s.HomeGames)
AwayWinRatio(s)   == Divide(s.AwayWins, s.AwayGames)
HomeGoalRatio(s)  == Divide(s.HomeGoals, s.HomeGames)
AwayGoalRatio(s)  == Divide(s.AwayGoals, s.AwayGames)
TotalGoalRatio(s) == Divide(s.TotalGoals, s.TotalGames)

WithTotals(s) ==
    s @@ [TotalGames |-> TotalGames(s), TotalWins |-> TotalWins(s),
          TotalDraws |-> TotalDraws(s), TotalGoals |-> TotalGoals(s)]

WithRatios(s) ==
    s @@ [WinRatio |-> WinRatio(s), DrawRatio |-> DrawRatio(s),
          HomeWinRatio |-> HomeWinRatio(s), AwayWinRatio |-> AwayWinRatio(s),
          HomeGoalRatio |-> HomeGoalRatio(s), AwayGoalRatio |-> AwayGoalRatio(s),
          TotalGoalRatio |-> TotalGoalRatio(s)]

\* The frame compute_team_statistics returns: one row per index key in
\* ascending order, the key as the column Team.
TeamStatistics(d) ==
    LET m    == FillNa0(MergeOuter(HomeStats(d), AwayStats(d)))
        keys == SelectSeq(TeamOrder, LAMBDA t : t \in DOMAIN m)
    IN  [i \in 1..Len(keys) |->
           WithRatios(WithTotals(m[keys[i]])) @@ [Team |-> keys[i]]]

----------------------------------------------------------------------------
(* The collector: __init__, collect_data *)

LeagueInputs == {"serie_a", "epl", "bundesliga"}

NoFrame == [cols |-> <<>>, rows |-> <<>>]
NoStats == [done |-> FALSE, rows |-> <<>>]

Init ==
    /\ league \in LeagueInputs
    /\ all_data = <<>>
    /\ pc = "idle"
    /\ year_start = 0
    /\ year = 0
    /\ year_end = 0
    /\ write_csv = FALSE
    /\ requests = <<>>
    /\ history = <<>>
    /\ files = {}
    /\ remote \in {r \in [UrlsOf(league) -> UNION {ResponsesFor(u) : u \in UrlsOf(league)}] :
                     \A u \in UrlsOf(league) : r[u] \in ResponsesFor(u)}
    /\ entropy \in IdSeeds
    /\ df = NoFrame
    /\ stats = NoStats

\* A finished call of collect_data: its arguments, the requests it issued
\* and the table it returned or the exception it raised.
CallRecord(reqs, res) ==
    [year_start |-> year_start, year_end |-> year_end,
     requests |-> reqs, result |-> res]

\* The call's frame (arguments, loop variable) is gone once it returns or
\* raises.
Return ==
    /\ pc' = "idle"
    /\ year_start' = 0
    /\ year' = 0
    /\ year_end' = 0
    /\ write_csv' = FALSE
    /\ requests' = <<>>

\* Entry of collect_data(year_start, year_end, write_csv).
CollectData(ys, ye, wc) ==
    /\ pc = "idle"
    /\ Len(history) < MaxCalls
    /\ pc' = "loop"
    /\ year_start' = ys
    /\ year' = ys
    /\ year_end' = ye
    /\ write_csv' = wc
    /\ requests' = <<>>
    /\ UNCHANGED <<league, all_data, history, files, remote, entropy, df,
                   stats>>

\* One iteration of the loop over range(year_start, year_end + 1).
FetchYear ==
    /\ pc = "loop"
    /\ year <= year_end
    /\ LET url == ConstructUrl(league, year)
       IN  IF ~url.ok
           THEN /\ history' = Append(history,
                                 CallRecord(requests, ErrorResult(InvalidLeague)))
                /\ Return
                /\ UNCHANGED all_data
           ELSE LET r == RequestsGet(url)
                IN  /\ requests' = Append(requests, url)
                    /\ all_data' = IF IsOk200(r)
                                   THEN Append(all_data, ReadCsv(r.text))
                                   ELSE all_data
                    /\ year' = year + 1
                    /\ UNCHANGED <<pc, year_start, year_end, write_csv,
                                   history>>
    /\ UNCHANGED <<league, files, remote, entropy, df, stats>>

\* return self._process_data(write_csv), after the loop.
ProcessDataStep ==
    /\ pc = "loop"
    /\ year > year_end
    /\ LET res == ProcessData(league, all_data, entropy)
       IN  /\ history' = Append(history, CallRecord(requests, res))
           /\ files' = IF res.status = "ok" /\ write_csv
                       THEN files \cup {league \o ".csv"} ELSE files
           /\ entropy' = Uuid4Hex8(entropy, Len(res.rows))
    /\ Return
    /\ UNCHANGED <<league, all_data, remote, df, stats>>

\* Arguments of collect_data: every non-empty range over Years, and one
\* reversed range.
RangeInputs == {p \in Years \X Years : p[1] <= p[2]} \cup {<<2021, 2020>>}

Next ==
    \/ \E p \in RangeInputs, wc \in BOOLEAN : CollectData(p[1], p[2], wc)
    \/ FetchYear
    \/ ProcessDataStep

Spec == Init /\ [][Next]_vars

----------------------------------------------------------------------------
(* Properties of collect_data, over the behaviours of Spec *)

LeagueValid == league \in {"serie_a", "epl"}

\* The requests of a finished call that were answered with status 200.
Succeeded(call) == SelectSeq(call.requests, LAMBDA u : IsOk200(remote[u]))

\* The season tables fetched successfully during the call, in request order.
FetchedBy(call) ==
    [i \in 1..Len(Succeeded(call)) |-> ReadCsv(remote[Succeeded(call)[i]].text)]

StripGameId(res) ==
    [status |-> res.status, cols |-> res.cols,
     rows |-> [i \in 1..Len(res.rows) |->
                 [c \in (DOMAIN res.rows[i]) \ {"game_id"} |-> res.rows[i][c]]]]

SameExceptGameId(a, b) == StripGameId(a) = StripGameId(b)

RangeYears(call) == call.year_end - call.year_start + 1

\* C1: two calls of collect_data on the same instance with the same
\* (year_start, year_end), the remote source unchanged, return tables that
\* are row-for-row identical except for game_id.
C1_Idempotent ==
    \A i \in DOMAIN history, j \in DOMAIN history :
       (/\ history[i].year_start = history[j].year_start
        /\ history[i].year_end = history[j].year_end)
       => SameExceptGameId(history[i].result, history[j].result)

\* C2: a call (valid league) in which no season is fetched successfully
\* raises the empty-input error at merge time and returns no table, whatever
\* calls came before it on the instance.
C2_EmptyInputRaises ==
    LeagueValid =>
      \A k \in DOMAIN history :
         Succeeded(history[k]) = <<>> => history[k].result.status = NoObjects

\* C3: per-season failures never abort the loop: every year of the range is
\* requested, and a returned table holds exactly the rows of the seasons
\* that succeeded in this call.
C3_FailuresSkipped ==
    LeagueValid =>
      \A k \in DOMAIN history :
         /\ history[k].result.status # InvalidLeague
         /\ history[k].year_start <= history[k].year_end
              => Len(history[k].requests) = RangeYears(history[k])
         /\ history[k].result.status = "ok"
              => SameExceptGameId(history[k].result,
                                  ProcessData(league, FetchedBy(history[k]), 0))

\* C4 as stated: with an invalid league every call fails with the
\* invalid-league error, no request issued, nothing appended, no file.
C4_EveryCallInvalidLeague ==
    ~LeagueValid =>
      /\ all_data = <<>>
      /\ files = {}
      /\ requests = <<>>
      /\ \A k \in DOMAIN history :
            /\ history[k].result.status = InvalidLeague
            /\ history[k].requests = <<>>

\* C4 amended: with an invalid league a call over a non-empty range fails
\* with the invalid-league error on the first iteration, a call over an
\* empty (reversed) range fails with the empty-concatenation error at merge
\* time; either way no request is issued, nothing is appended, no file is
\* written and no table is returned.
C4_InvalidLeague ==
    ~LeagueValid =>
      /\ all_data = <<>>
      /\ files = {}
      /\ requests = <<>>
      /\ \A k \in DOMAIN history :
            /\ history[k].requests = <<>>
            /\ history[k].year_start <= history[k].year_end
                 => history[k].result.status = InvalidLeague
            /\ history[k].year_start > history[k].year_end
                 => history[k].result.status = NoObjects

C4_Witness ==
    /\ ~LeagueValid
    /\ \E k \in DOMAIN history :
          /\ history[k].year_start <= history[k].year_end
          /\ history[k].result.status = InvalidLeague

\* The season start year of row i of a returned table.
SeasonStart(res, i) == res.rows[i]["season"][1][1]

\* C10: a call (valid league) issues exactly one request per year of the
\* range, in ascending year order, and in the returned table rows of an
\* earlier year precede rows of a later year.
C10_AscendingYears ==
    LeagueValid =>
      \A k \in DOMAIN history :
         /\ history[k].requests =
              [i \in 1..(IF RangeYears(history[k]) > 0
                         THEN RangeYears(history[k]) ELSE 0) |->
                 ConstructUrl(league, history[k].year_start + i - 1)]
         /\ history[k].result.status = "ok"
              => \A i \in DOMAIN history[k].result.rows,
                    j \in DOMAIN history[k].result.rows :
                    i < j => SeasonStart(history[k].result, i)
                               <= SeasonStart(history[k].result, j)

----------------------------------------------------------------------------
(* _process_data over a wider range of season tables: the state right      *)
(* after the fetch loop of a first call over all of Years, the archive     *)
(* serving CSV texts drawn from the sets below.                            *)

ProcHeaders ==
    { BaseHeader,
      BaseHeader \o <<"HTR">>,
      <<"Date", "TG", "HomeTeam", "AwayTeam", "FTHG", "FTAG", "FTR", "game_id">>,
      <<"Div", "Date", "HomeTeam", "AwayTeam", "FTAG", "FTR">>,
      <<"HomeTeam", "AwayTeam", "Date", "FTHG", "FTAG", "FTR", "Div">> }

\* One CSV field of a line of the given variant.
ProcField(c, date, variant) ==
    IF variant = "blank" THEN NA
    ELSE IF c = "Date" THEN date
    ELSE IF c = "HomeTeam"
         THEN (IF variant = "unmapped" THEN Some("Unmapped FC") ELSE Some("Arsenal"))
    ELSE IF c = "AwayTeam" THEN Some("Chelsea")
    ELSE IF c = "FTHG" THEN (IF variant = "nogoals" THEN NA ELSE Some(2))
    ELSE IF c = "FTAG" THEN Some(1)
    ELSE IF c = "FTR" THEN Some("H")
    ELSE IF c = "HTR" THEN (IF variant = "unmapped" THEN NA ELSE Some("D"))
    ELSE IF c = "Div" THEN Some("E0")
    ELSE IF c = "TG" THEN Some(9)
    ELSE Some(7)

ProcLine(h, date, variant) == [i \in 1..Len(h) |-> ProcField(h[i], date, variant)]

\* A match in every month of 2020, and three irregular lines.
ProcLines(h) ==
    {ProcLine(h, DateText(25, m, 2020), "full") : m \in 1..12}
      \cup {ProcLine(h, DateText(5, 8, 2021), "unmapped"),
            ProcLine(h, DateText(5, 7, 2021), "nogoals"),
            ProcLine(h, NA, "blank")}

SeqsUpTo(S, n) == UNION {[1..k -> S] : k \in 0..n}

ProcBodies ==
    UNION {{[header |-> h, lines |-> ls] : ls \in SeqsUpTo(ProcLines(h), MaxProcRows)} :
             h \in ProcHeaders}

SecondBodies ==
    { [header |-> BaseHeader \o <<"HTR">>,
       lines |-> <<ProcLine(BaseHeader \o <<"HTR">>, DateText(3, 1, 2022), "full")>>],
      [header |-> <<"HomeTeam", "AwayTeam", "Date", "FTHG", "FTAG", "FTR", "Div">>,
       lines |-> <<ProcLine(<<"HomeTeam", "AwayTeam", "Date", "FTHG", "FTAG", "FTR", "Div">>,
                            DateText(30, 9, 2021), "unmapped")>>] }

Ok200(body) == [raises |-> FALSE, status_code |-> 200, text |-> body]
NotFound404 == [raises |-> FALSE, status_code |-> 404, text |-> EmptyBody]

\* The requests of a call over all of Years, in loop order.
AllRequests(lg) == [i \in 1..NumYears |-> ConstructUrl(lg, 2020 + i - 1)]

InitProcess ==
    /\ league = "epl"
    /\ \E b1 \in ProcBodies, r2 \in {Ok200(b) : b \in SecondBodies} \cup {NotFound404} :
         remote = [u \in UrlsOf(league) |->
                     IF u = ConstructUrl(league, 2020) THEN Ok200(b1)
                     ELSE IF u = ConstructUrl(league, 2021) THEN r2
                     ELSE NotFound404]
    /\ requests = AllRequests(league)
    /\ all_data = LET ok == SelectSeq(requests, LAMBDA u : IsOk200(remote[u]))
                  IN  [i \in 1..Len(ok) |-> ReadCsv(remote[ok[i]].text)]
    /\ pc = "loop"
    /\ year_start = 2020
    /\ year_end = 2020 + NumYears - 1
    /\ year = year_end + 1
    /\ write_csv = FALSE
    /\ history = <<>>
    /\ files = {}
    /\ entropy \in IdSeeds
    /\ df = NoFrame
    /\ stats = NoStats

NextProcess == ProcessDataStep

SpecProcess == InitProcess /\ [][NextProcess]_vars

\* The result of the call that has just returned.
LastResult == history[Len(history)].result

Returned == pc = "idle" /\ history # <<>> /\ LastResult.status = "ok"

\* C5: in a returned table the season label of a row follows from its
\* parsed date alone: month >= 8 gives "Y/Y+1", month < 8 gives "Y-1/Y", Y
\* the date's year; the two years of the label differ by one.
C5_SeasonLabel ==
    Returned =>
      \A i \in DOMAIN LastResult.rows :
         LET row == LastResult.rows[i]
         IN  ~IsNA(row["Date"]) =>
               LET d == row["Date"][1]
                   l == row["season"][1]
               IN  /\ d.month >= 8 => l = <<d.year, d.year + 1>>
                   /\ d.month < 8 => l = <<d.year - 1, d.year>>
                   /\ Len(l) = 2
                   /\ l[2] - l[1] = 1

C5_Witness ==
    /\ Returned
    /\ \E i \in DOMAIN LastResult.rows, j \in DOMAIN LastResult.rows :
          /\ ~IsNA(LastResult.rows[i]["Date"])
          /\ ~IsNA(LastResult.rows[j]["Date"])
          /\ LastResult.rows[i]["Date"][1].month = 8
          /\ LastResult.rows[j]["Date"][1].month = 7
          /\ LastResult.rows[i]["season"] = Some(<<2020, 2021>>)
          /\ LastResult.rows[j]["season"] = Some(<<2019, 2020>>)

\* The columns that survive the all-missing drop, in their original order.
Surviving == Derived(league, Concat(all_data), 0).cols

\* C6: the columns of a returned table are the surviving columns, each
\* once: game_id first, then the first three columns other than game_id and
\* TG in their original order, TG fifth, then the rest in original order.
C6_ColumnOrder ==
    Returned =>
      LET c      == LastResult.cols
          others == SelectSeq(Surviving, LAMBDA x : x \notin {"game_id", "TG"})
      IN  /\ Len(c) = Len(Surviving)
          /\ Range(c) = Range(Surviving)
          /\ Cardinality(Range(c)) = Len(c)
          /\ \A i \in DOMAIN LastResult.rows : DOMAIN LastResult.rows[i] = Range(c)
          /\ c[1] = "game_id"
          /\ c[5] = "TG"
          /\ Len(others) = Len(c) - 2
          /\ \A i \in 1..3 : c[i + 1] = others[i]
          /\ \A i \in 4..Len(others) : c[i + 2] = others[i]

\* A returned table whose source had TG and game_id columns of its own and
\* lost a column to the all-missing drop.
C6_Witness ==
    /\ Returned
    /\ "TG" \in Range(all_data[1].cols)
    /\ "city_name" \notin Range(LastResult.cols)
    /\ LastResult.cols[5] = "TG"

----------------------------------------------------------------------------
(* compute_team_statistics over input tables drawn from bounded sets *)

ComputeTeamStatistics ==
    /\ ~stats.done
    /\ stats' = [done |-> TRUE, rows |-> TeamStatistics(df)]
    /\ UNCHANGED <<league, all_data, pc, year_start, year, year_end,
                   write_csv, requests, history, files, remote, entropy, df>>

StatCols == <<"HomeTeam", "AwayTeam", "FTHG", "FTAG", "FTR">>

\* Goals and result code of a match: consistent results, a result code at
\* odds with the goals, and a match with a missing home goal count.
StatOutcomes ==
    { <<Some(2), Some(0), Some("H")>>, <<Some(0), Some(3), Some("A")>>,
      <<Some(1), Some(1), Some("D")>>, <<Some(2), Some(2), Some("H")>>,
      <<NA, Some(1), NA>> }

StatRow(h, a, o) ==
    [c \in Range(StatCols) |->
       IF c = "HomeTeam" THEN h ELSE IF c = "AwayTeam" THEN a
       ELSE IF c = "FTHG" THEN o[1] ELSE IF c = "FTAG" THEN o[2] ELSE o[3]]

StatRows ==
    {StatRow(Some(h), Some(a), o) :
       h \in Range(TeamOrder), a \in Range(TeamOrder), o \in StatOutcomes}
      \cup {StatRow(NA, NA, <<NA, NA, NA>>)}

InitStats ==
    /\ league = "epl"
    /\ all_data = <<>>
    /\ pc = "idle"
    /\ year_start = 0
    /\ year = 0
    /\ year_end = 0
    /\ write_csv = FALSE
    /\ requests = <<>>
    /\ history = <<>>
    /\ files = {}
    /\ remote = [u \in UrlsOf(league) |-> NotFound404]
    /\ entropy = 0
    /\ \E rows \in SeqsUpTo({r \in StatRows : r["HomeTeam"] # r["AwayTeam"]
                                               \/ IsNA(r["HomeTeam"])},
                            MaxStatRows) :
         df = [cols |-> StatCols, rows |-> rows]
    /\ stats = NoStats

NextStats == ComputeTeamStatistics

SpecStats == InitStats /\ [][NextStats]_vars

HomeRowsOf(t) == {i \in DOMAIN df.rows : df.rows[i]["HomeTeam"] = Some(t)}
AwayRowsOf(t) == {i \in DOMAIN df.rows : df.rows[i]["AwayTeam"] = Some(t)}

RECURSIVE SumOver(_, _)
\* The sum of a column over a set of rows of df, missing values skipped.
SumOver(I, col) ==
    IF I = {} THEN 0
    ELSE LET i == CHOOSE k \in I : TRUE
         IN  ValueOr0(df.rows[i][col]) + SumOver(I \ {i}, col)

\* C7: every team row has TotalGames = HomeGames + AwayGames, TotalWins =
\* HomeWins + AwayWins, TotalGoals = HomeGoals + AwayGoals, the home/away
\* counts being the numbers of the team's home/away rows, its home rows with
\* FTR = 'H', its away rows with FTR = 'A', and the sums of FTHG / FTAG.
C7_Totals ==
    stats.done =>
      \A k \in DOMAIN stats.rows :
         LET s == stats.rows[k]
             H == HomeRowsOf(s.Team)
             A == AwayRowsOf(s.Team)
         IN  /\ s.HomeGames = Cardinality(H)
             /\ s.AwayGames = Cardinality(A)
             /\ s.HomeWins = Cardinality({i \in H : df.rows[i]["FTR"] = Some("H")})
             /\ s.AwayWins = Cardinality({i \in A : df.rows[i]["FTR"] = Some("A")})
             /\ s.HomeGoals = SumOver(H, "FTHG")
             /\ s.AwayGoals = SumOver(A, "FTAG")
             /\ s.TotalGames = s.HomeGames + s.AwayGames
             /\ s.TotalWins = s.HomeWins + s.AwayWins
             /\ s.TotalGoals = s.HomeGoals + s.AwayGoals

\* A team with home and away games, wins on both sides and goals.
C7_Witness ==
    /\ stats.done
    /\ \E k \in DOMAIN stats.rows :
          /\ stats.rows[k].HomeWins > 0
          /\ stats.rows[k].AwayWins > 0
          /\ stats.rows[k].TotalGames = 2
          /\ stats.rows[k].TotalGoals > 2

InUnit(r) == r.kind = "finite" /\ 0 <= r.num /\ r.num <= r.den

\* C8 as stated: every ratio column, the goal ratios included, lies in
\* [0, 1] whenever its denominator is nonzero.
C8_AllRatiosInUnit ==
    stats.done =>
      \A k \in DOMAIN stats.rows :
         LET s == stats.rows[k]
         IN  /\ s.TotalGames # 0 => /\ InUnit(s.WinRatio)
                                    /\ InUnit(s.DrawRatio)
                                    /\ InUnit(s.TotalGoalRatio)
             /\ s.HomeGames # 0 => InUnit(s.HomeWinRatio) /\ InUnit(s.HomeGoalRatio)
             /\ s.AwayGames # 0 => InUnit(s.AwayWinRatio) /\ InUnit(s.AwayGoalRatio)

\* C8 amended: WinRatio, DrawRatio, HomeWinRatio and AwayWinRatio lie in
\* [0, 1] whenever their denominator is nonzero; the goal ratios are goals
\* per game, finite and not negative, with no upper bound of 1.
C8_WinRatiosInUnit ==
    stats.done =>
      \A k \in DOMAIN stats.rows :
         LET s == stats.rows[k]
             NonNeg(r) == r.kind = "finite" /\ 0 <= r.num
         IN  /\ s.TotalGames # 0 => /\ InUnit(s.WinRatio)
                                    /\ InUnit(s.DrawRatio)
                                    /\ NonNeg(s.TotalGoalRatio)
             /\ s.HomeGames # 0 => InUnit(s.HomeWinRatio) /\ NonNeg(s.HomeGoalRatio)
             /\ s.AwayGames # 0 => InUnit(s.AwayWinRatio) /\ NonNeg(s.AwayGoalRatio)

\* A team that won all its home games and scored more than one goal a game.
C8_Witness ==
    /\ stats.done
    /\ \E k \in DOMAIN stats.rows :
          /\ stats.rows[k].HomeGames # 0
          /\ stats.rows[k].HomeWinRatio.num = stats.rows[k].HomeWinRatio.den
          /\ stats.rows[k].HomeGoalRatio.num > stats.rows[k].HomeGoalRatio.den

TeamsOf(d) == GroupKeys(d, "HomeTeam") \cup GroupKeys(d, "AwayTeam")

\* C9: exactly one row per distinct team appearing as home or away team; a
\* team absent from one side has zero games, wins, draws and goals on that
\* side, and that side's ratios are missing (NaN), no fault raised.
C9_OneRowPerTeam ==
    stats.done =>
      /\ {stats.rows[k].Team : k \in DOMAIN stats.rows} = TeamsOf(df)
      /\ Len(stats.rows) = Cardinality(TeamsOf(df))
      /\ \A k \in DOMAIN stats.rows :
            LET s == stats.rows[k]
            IN  /\ HomeRowsOf(s.Team) = {}
                     => /\ s.HomeGames = 0 /\ s.HomeWins = 0
                        /\ s.HomeDraws = 0 /\ s.HomeGoals = 0
                        /\ s.HomeWinRatio.kind = "nan"
                        /\ s.HomeGoalRatio.kind = "nan"
                /\ AwayRowsOf(s.Team) = {}
                     => /\ s.AwayGames = 0 /\ s.AwayWins = 0
                        /\ s.AwayDraws = 0 /\ s.AwayGoals = 0
                        /\ s.AwayWinRatio.kind = "nan"
                        /\ s.AwayGoalRatio.kind = "nan"

\* A team that only ever played away, next to one that only played at home.
C9_Witness ==
    /\ stats.done
    /\ \E k \in DOMAIN stats.rows, j \in DOMAIN stats.rows :
          /\ HomeRowsOf(stats.rows[k].Team) = {}
          /\ stats.rows[k].AwayGames > 0
          /\ AwayRowsOf(stats.rows[j].Team) = {}
          /\ stats.rows[j].HomeGames > 0

====
